---------------------------- MODULE Spec2Model ----------------------------
(***************************************************************************)
(* A model of scripts/data_cleaning.py (class ElectionDataCleaner and      *)
(* main): text repair (clean_text), the ordered per-column rule tables     *)
(* (COLUMN_PATTERNS) with first-match categorisation (match_pattern), and  *)
(* the load / clean / save pipeline.                                       *)
(*                                                                         *)
(* A text is a sequence of characters.  An ASCII character is the string   *)
(* of length one that holds it; a character outside ASCII is the string    *)
(* naming its code point ("U+00C3").  Chars("abc") is <<"a","b","c">>.     *)
(***************************************************************************)
EXTENDS Integers, Sequences, FiniteSets, TLC

(***************************************************************************)
(* Characters                                                              *)
(***************************************************************************)
Chars(str) == <<>> \o [i \in 1..Len(str) |-> SubSeq(str, i, i)]

A_tilde == "U+00C3"    \* LATIN CAPITAL LETTER A WITH TILDE
A_circ  == "U+00C2"    \* LATIN CAPITAL LETTER A WITH CIRCUMFLEX
a_circ  == "U+00E2"    \* LATIN SMALL LETTER A WITH CIRCUMFLEX
e_acute == "U+00E9"    \* LATIN SMALL LETTER E WITH ACUTE
oe_lig  == "U+0153"    \* LATIN SMALL LIGATURE OE
cent    == "U+00A2"    \* CENT SIGN
copysgn == "U+00A9"    \* COPYRIGHT SIGN
notsign == "U+00AC"    \* NOT SIGN
euro    == "U+20AC"    \* EURO SIGN
tm      == "U+2122"    \* TRADE MARK SIGN
sbquo   == "U+201A"    \* SINGLE LOW-9 QUOTATION MARK
bdquo   == "U+201E"    \* DOUBLE LOW-9 QUOTATION MARK
rsquo   == "U+2019"    \* RIGHT SINGLE QUOTATION MARK
c80     == "U+0080"    \* C1 control
c82     == "U+0082"    \* C1 control
c92     == "U+0092"    \* C1 control
c99     == "U+0099"    \* C1 control
nbsp    == "U+00A0"    \* NO-BREAK SPACE

LowerLetters == {"a","b","c","d","e","f","g","h","i","j","k","l","m",
                 "n","o","p","q","r","s","t","u","v","w","x","y","z"}
UpperLetters == {"A","B","C","D","E","F","G","H","I","J","K","L","M",
                 "N","O","P","Q","R","S","T","U","V","W","X","Y","Z"}
Digits == {"0","1","2","3","4","5","6","7","8","9"}

\* str.lower() on one character (the letters the model's alphabet holds).
LowerOf == [c \in UpperLetters |->
              CASE c = "A" -> "a" [] c = "B" -> "b" [] c = "C" -> "c" [] c = "D" -> "d"
                [] c = "E" -> "e" [] c = "F" -> "f" [] c = "G" -> "g" [] c = "H" -> "h"
                [] c = "I" -> "i" [] c = "J" -> "j" [] c = "K" -> "k" [] c = "L" -> "l"
                [] c = "M" -> "m" [] c = "N" -> "n" [] c = "O" -> "o" [] c = "P" -> "p"
                [] c = "Q" -> "q" [] c = "R" -> "r" [] c = "S" -> "s" [] c = "T" -> "t"
                [] c = "U" -> "u" [] c = "V" -> "v" [] c = "W" -> "w" [] c = "X" -> "x"
                [] c = "Y" -> "y" [] c = "Z" -> "z"]

Fold(c) == IF c \in UpperLetters THEN LowerOf[c]
           ELSE IF c = A_circ THEN a_circ ELSE c

\* \s of a str pattern: Unicode white space.
IsSpace(c) == c \in {" ", "\t", "\n", "\r", "\f", nbsp}

\* \w of a str pattern: Unicode letters and digits, and the underscore.
IsWord(c) == c \in LowerLetters \cup UpperLetters \cup Digits
                    \cup {"_", A_tilde, A_circ, a_circ, e_acute, oe_lig}

(***************************************************************************)
(* Regular expressions (module re): the constructors the program's         *)
(* patterns use, and a backtracking matcher that lists, in the order the   *)
(* engine tries them, the positions where a match starting at i can end.   *)
(***************************************************************************)
LitSeq(cs) == [t |-> "lit", cs |-> cs]                    \* the characters cs, in a row
Chr(c)     == LitSeq(<<c>>)
Lit(str)   == LitSeq(Chars(str))
ClsS       == [t |-> "cls", k |-> "s"]                     \* \s
ClsW       == [t |-> "cls", k |-> "w"]                     \* \w
Dot        == [t |-> "cls", k |-> "dot"]                   \* .
OneOf(cs)  == [t |-> "set", cs |-> cs]                     \* [abc]
NoneOf(cs, ks) == [t |-> "nset", cs |-> cs, ks |-> ks]     \* [^\w\sabc]
Cat(rs)    == [t |-> "cat", rs |-> rs]
Alt(rs)    == [t |-> "alt", rs |-> rs]
Opt(r)     == [t |-> "opt", r |-> r]                       \* r?
Star(r)    == [t |-> "star", r |-> r]                      \* r*, r matching one character
Plus(r)    == Cat(<<r, Star(r)>>)                          \* r+
Bol        == [t |-> "bol"]                                \* ^
Eol        == [t |-> "eol"]                                \* $

InClass(k, c) == CASE k = "s" -> IsSpace(c)
                   [] k = "w" -> IsWord(c)
                   [] k = "dot" -> c # "\n"

\* One pattern character against one text character, under re.IGNORECASE or not.
CharEq(p, c, ic) == IF ic THEN Fold(p) = Fold(c) ELSE p = c

\* Whether the one-character pattern r matches the character c.
One(r, c, ic) ==
  CASE r.t = "lit"  -> Len(r.cs) = 1 /\ CharEq(r.cs[1], c, ic)
    [] r.t = "cls"  -> InClass(r.k, c)
    [] r.t = "set"  -> \E p \in r.cs : CharEq(p, c, ic)
    [] r.t = "nset" -> ~(\E p \in r.cs : CharEq(p, c, ic)) /\ ~(\E k \in r.ks : InClass(k, c))

\* ps without the later copies of a position (a backtracking engine that reaches a
\* position a second time finds there what it found the first time).
Dedup(ps) ==
  IF Len(ps) <= 1 THEN ps
  ELSE LET keep == {k \in 1..Len(ps) : \A j \in 1..(k - 1) : ps[j] # ps[k]}
       IN <<>> \o [n \in 1..Cardinality(keep) |->
                      ps[CHOOSE k \in keep : Cardinality({j \in keep : j <= k}) = n]]

RECURSIVE Ends(_, _, _, _), CatEnds(_, _, _, _, _), AltEnds(_, _, _, _, _), Flat(_, _, _, _, _)

\* The end positions (index after the last matched character) of the matches of r
\* in s that start at i, most preferred first.
Ends(r, s, i, ic) ==
  CASE r.t = "lit"  -> IF i + Len(r.cs) - 1 <= Len(s)
                          /\ \A k \in 1..Len(r.cs) : CharEq(r.cs[k], s[i + k - 1], ic)
                       THEN <<i + Len(r.cs)>> ELSE <<>>
    [] r.t \in {"cls", "set", "nset"} ->
                       IF i <= Len(s) /\ One(r, s[i], ic) THEN <<i + 1>> ELSE <<>>
    [] r.t = "cat"  -> CatEnds(r.rs, 1, s, i, ic)
    [] r.t = "alt"  -> AltEnds(r.rs, 1, s, i, ic)
    [] r.t = "opt"  -> Dedup(Ends(r.r, s, i, ic) \o <<i>>)
    [] r.t = "star" -> \* greedy: the longest run first, then each shorter one
                       LET m == CHOOSE j \in i..(Len(s) + 1) :
                                  /\ \A k \in i..(j - 1) : One(r.r, s[k], ic)
                                  /\ (j <= Len(s) => ~One(r.r, s[j], ic))
                       IN <<>> \o [n \in 1..(m - i + 1) |-> m - n + 1]
    [] r.t = "bol"  -> IF i = 1 THEN <<i>> ELSE <<>>
    [] r.t = "eol"  -> IF i = Len(s) + 1 \/ (i = Len(s) /\ s[i] = "\n")
                       THEN <<i>> ELSE <<>>

\* rs[k], rs[k+1], ... in sequence from i.
CatEnds(rs, k, s, i, ic) ==
  IF k > Len(rs) THEN <<i>>
  ELSE Dedup(Flat(Ends(rs[k], s, i, ic), rs, k + 1, s, ic))

\* rs[k] | rs[k+1] | ... at i: the earlier alternative's matches come first.
AltEnds(rs, k, s, i, ic) ==
  IF k > Len(rs) THEN <<>>
  ELSE Dedup(Ends(rs[k], s, i, ic) \o AltEnds(rs, k + 1, s, i, ic))

\* For every position of ps in turn, the rest rs[k..] matched from it.
Flat(ps, rs, k, s, ic) ==
  IF ps = <<>> THEN <<>>
  ELSE CatEnds(rs, k, s, Head(ps), ic) \o Flat(Tail(ps), rs, k, s, ic)

\* re.search(r, s) is not None
Search(r, s, ic) == \E i \in 1..(Len(s) + 1) : Ends(r, s, i, ic) # <<>>

RECURSIVE SubFrom(_, _, _, _)
SubFrom(r, repl, s, i) ==
  IF i > Len(s) THEN (IF Ends(r, s, i, FALSE) # <<>> THEN repl ELSE <<>>)
  ELSE LET es == Ends(r, s, i, FALSE)
       IN IF es = <<>> THEN <<s[i]>> \o SubFrom(r, repl, s, i + 1)
          ELSE IF Head(es) = i THEN repl \o <<s[i]>> \o SubFrom(r, repl, s, i + 1)
          ELSE repl \o SubFrom(r, repl, s, Head(es))

\* re.sub(r, repl, s): every leftmost non-overlapping match replaced by repl.
Sub(r, repl, s) == SubFrom(r, repl, s, 1)

\* str.replace(old, new)
Replace(s, old, new) == Sub(LitSeq(old), new, s)

RECURSIVE LStrip(_)
LStrip(s) == IF s # <<>> /\ IsSpace(Head(s)) THEN LStrip(Tail(s)) ELSE s

RECURSIVE RStrip(_)
RStrip(s) == IF s # <<>> /\ IsSpace(s[Len(s)]) THEN RStrip(SubSeq(s, 1, Len(s) - 1)) ELSE s

\* str.strip()
Strip(s) == RStrip(LStrip(s))

(***************************************************************************)
(* Text repair: TEXT_PATTERNS, TEXT_REPLACEMENTS and clean_text            *)
(***************************************************************************)
\* A missing value (NaN / None), for which pd.isna is true.  It is no text.
NaN == <<"<NaN>">>
isna(v) == v = NaN

Unknown == Chars("Unknown")

\* The names of TEXT_PATTERNS in the dict's (insertion) order.
TEXT_PATTERN_NAMES == <<"encoding_artifacts", "apostrophes", "quotes", "whitespace",
                        "special_chars", "trailing", "multiple_spaces">>

encoding_artifacts ==
  Alt(<< Cat(<<Chr(A_tilde), Star(ClsS), Chr(A_circ)>>),
         Cat(<<Chr(A_tilde), Star(ClsS), ClsW>>),
         Cat(<<Star(ClsS), Chr(A_circ)>>),
         LitSeq(<<A_circ, "t">>),
         LitSeq(<<a_circ, euro, tm>>),
         LitSeq(<<a_circ, euro>>),
         LitSeq(<<A_tilde, cent, a_circ, sbquo, notsign, a_circ, bdquo, cent>>) >>)

TEXT_PATTERNS ==
  [n \in {TEXT_PATTERN_NAMES[k] : k \in 1..Len(TEXT_PATTERN_NAMES)} |->
     CASE n = "encoding_artifacts" -> encoding_artifacts
       [] n = "apostrophes"     -> OneOf({"'"})
       [] n = "quotes"          -> OneOf({"\""})
       [] n = "whitespace"      -> Plus(ClsS)
       [] n = "special_chars"   -> NoneOf({"'", "-"}, {"w", "s"})
       [] n = "trailing"        -> Alt(<<Cat(<<Bol, Plus(ClsS)>>), Cat(<<Plus(ClsS), Eol>>)>>)
       [] n = "multiple_spaces" -> Plus(Chr(" "))]

TEXT_REPLACEMENTS ==
  [n \in {TEXT_PATTERN_NAMES[k] : k \in 1..Len(TEXT_PATTERN_NAMES)} |->
     CASE n = "encoding_artifacts" -> <<>>
       [] n = "apostrophes"     -> <<"'">>
       [] n = "whitespace"      -> <<" ">>
       [] n = "special_chars"   -> <<>>
       [] n = "trailing"        -> <<>>
       [] n = "quotes"          -> <<>>
       [] n = "multiple_spaces" -> <<" ">>]

\* The literal replacements clean_text makes first, in the order it makes them.
LITERAL_REPLACEMENTS ==
  << <<  <<A_tilde, cent>>,            <<"a">>      >>,
     <<  <<A_circ, "t">>,              <<"'", "t">> >>,
     <<  <<a_circ, euro, tm>>,         <<"'">>      >>,
     <<  <<a_circ, euro, oe_lig>>,     <<"\"">>     >>,
     <<  <<a_circ, euro>>,             <<"\"">>     >>,
     <<  <<A_tilde, c82, A_circ, c92>>, <<"'">>     >>,
     <<  <<A_tilde, c82, A_circ>>,     <<"'">>      >> >>

RECURSIVE ReplaceAll(_, _)
ReplaceAll(text, k) ==
  IF k > Len(LITERAL_REPLACEMENTS) THEN text
  ELSE ReplaceAll(Replace(text, LITERAL_REPLACEMENTS[k][1], LITERAL_REPLACEMENTS[k][2]), k + 1)

\* The loop over TEXT_PATTERNS.items() that skips encoding_artifacts.
RECURSIVE ApplyPatterns(_, _)
ApplyPatterns(text, k) ==
  IF k > Len(TEXT_PATTERN_NAMES) THEN text
  ELSE LET n == TEXT_PATTERN_NAMES[k]
       IN IF n = "encoding_artifacts" THEN ApplyPatterns(text, k + 1)
          ELSE ApplyPatterns(Sub(TEXT_PATTERNS[n], TEXT_REPLACEMENTS[n], text), k + 1)

\* clean_text without its last line's default: the text as stripped, empty or not.
clean_text_may_be_empty(text) ==
  IF isna(text) THEN Unknown
  ELSE Sub(Plus(ClsS), <<" ">>,
           Strip(ApplyPatterns(Sub(TEXT_PATTERNS["encoding_artifacts"], <<>>,
                                   ReplaceAll(text, 1)), 1)))

clean_text(text) ==
  IF isna(text) THEN Unknown
  ELSE LET t1 == ReplaceAll(text, 1)
           t2 == Sub(TEXT_PATTERNS["encoding_artifacts"], <<>>, t1)
           t3 == ApplyPatterns(t2, 1)
           t4 == Strip(t3)
           t5 == Sub(Plus(ClsS), <<" ">>, t4)
       IN IF t5 = <<>> THEN Unknown ELSE t5

(***************************************************************************)
(* The rule tables: COLUMN_PATTERNS.  A column's rules are a sequence, in  *)
(* the dict's (insertion) order, of a pattern and its canonical label.     *)
(***************************************************************************)
Rule(pattern, label) == [pattern |-> pattern, label |-> Chars(label)]

\* Shorthands for pieces several patterns share.
Ws == Star(ClsS)                                        \* \s*
DotStar == Star(Dot)                                    \* .*
Empty == Cat(<<Bol, Eol>>)                              \* ^$
NoResponse == Alt(<<Empty, Lit("none"), Cat(<<Lit("no"), Ws, Lit("response")>>)>>)

Occupation_rules ==
  << \* (?i)trade[r]?\s*$
     Rule(Cat(<<Lit("trade"), Opt(OneOf({"r"})), Ws, Eol>>), "Trader"),
     \* (?i)farm(er)?s?\s*$
     Rule(Cat(<<Lit("farm"), Opt(Lit("er")), Opt(Chr("s")), Ws, Eol>>), "Farmer"),
     \* (?i)seam?stress|s[ei]amstress
     Rule(Alt(<<Cat(<<Lit("sea"), Opt(Chr("m")), Lit("stress")>>),
                Cat(<<Chr("s"), OneOf({"e", "i"}), Lit("amstress")>>)>>), "Seamstress"),
     \* (?i)hair\s*dress?[e]?r|hair.*style
     Rule(Alt(<<Cat(<<Lit("hair"), Ws, Lit("dres"), Opt(Chr("s")), Opt(OneOf({"e"})), Chr("r")>>),
                Cat(<<Lit("hair"), DotStar, Lit("style")>>)>>), "Hairdresser"),
     \* (?i)teach(er)?\s*$
     Rule(Cat(<<Lit("teach"), Opt(Lit("er")), Ws, Eol>>), "Teacher"),
     \* (?i)driv(er)?\s*$
     Rule(Cat(<<Lit("driv"), Opt(Lit("er")), Ws, Eol>>), "Driver"),
     \* (?i)okada\s*(rider)?
     Rule(Cat(<<Lit("okada"), Ws, Opt(Lit("rider"))>>), "Okada Rider"),
     \* (?i)unemployed?
     Rule(Cat(<<Lit("unemploye"), Opt(Chr("d"))>>), "Unemployed") >>

Party_Belong_rules ==
  << \* (?i)^ndc\s*$|^n$
     Rule(Alt(<<Cat(<<Bol, Lit("ndc"), Ws, Eol>>), Cat(<<Bol, Chr("n"), Eol>>)>>), "NDC"),
     \* (?i)^npp\s*$
     Rule(Cat(<<Bol, Lit("npp"), Ws, Eol>>), "NPP"),
     \* (?i)^cpp\s*$
     Rule(Cat(<<Bol, Lit("cpp"), Ws, Eol>>), "CPP"),
     \* (?i)new\s*force
     Rule(Cat(<<Lit("new"), Ws, Lit("force")>>), "New Force"),
     \* (?i)none|unknown|cant\s*tell
     Rule(Alt(<<Lit("none"), Lit("unknown"), Cat(<<Lit("cant"), Ws, Lit("tell")>>)>>),
          "Not Specified") >>

Voted_Last_Election_rules ==
  << \* (?i)^y(es)?$
     Rule(Cat(<<Bol, Chr("y"), Opt(Lit("es")), Eol>>), "Yes"),
     \* (?i)^n(o)?$
     Rule(Cat(<<Bol, Chr("n"), Opt(Chr("o")), Eol>>), "No") >>

Reason_Not_Voted_rules ==
  << \* (?i)wasn'?t?\s*interested|no\s*interest
     Rule(Alt(<<Cat(<<Lit("wasn"), Opt(Chr("'")), Opt(Chr("t")), Ws, Lit("interested")>>),
                Cat(<<Lit("no"), Ws, Lit("interest")>>)>>), "Not Interested"),
     \* (?i)no\s*transport|transportation
     Rule(Alt(<<Cat(<<Lit("no"), Ws, Lit("transport")>>), Lit("transportation")>>),
          "No Transportation"),
     \* (?i)missing\s*id|no\s*id|lost\s*id
     Rule(Alt(<<Cat(<<Lit("missing"), Ws, Lit("id")>>), Cat(<<Lit("no"), Ws, Lit("id")>>),
                Cat(<<Lit("lost"), Ws, Lit("id")>>)>>), "ID Issues"),
     \* (?i)sick|illness|health
     Rule(Alt(<<Lit("sick"), Lit("illness"), Lit("health")>>), "Health Issues"),
     \* (?i)travel|busy|work
     Rule(Alt(<<Lit("travel"), Lit("busy"), Lit("work")>>), "Not Available"),
     \* (?i)^$|none|no\s*response
     Rule(NoResponse, "No Response") >>

Know_Projects_rules ==
  << \* (?i)yes.*knew.*about.*them
     Rule(Cat(<<Lit("yes"), DotStar, Lit("knew"), DotStar, Lit("about"), DotStar, Lit("them")>>),
          "Yes, Knew Projects"),
     \* (?i)heard.*but.*not.*helpful
     Rule(Cat(<<Lit("heard"), DotStar, Lit("but"), DotStar, Lit("not"), DotStar, Lit("helpful")>>),
          "Heard But Not Helpful"),
     \* (?i)did.*not.*know|don'?t?\s*know
     Rule(Alt(<<Cat(<<Lit("did"), DotStar, Lit("not"), DotStar, Lit("know")>>),
                Cat(<<Lit("don"), Opt(Chr("'")), Opt(Chr("t")), Ws, Lit("know")>>)>>),
          "Did Not Know"),
     \* (?i)^$|none|no\s*response
     Rule(NoResponse, "No Response") >>

Solved_Community_Problems_rules ==
  << \* (?i)yes.*solved.*major.*issue
     Rule(Cat(<<Lit("yes"), DotStar, Lit("solved"), DotStar, Lit("major"), DotStar, Lit("issue")>>),
          "Yes, Solved Major Issues"),
     \* (?i)tried.*but.*wasn'?t?\s*enough|partial
     Rule(Alt(<<Cat(<<Lit("tried"), DotStar, Lit("but"), DotStar, Lit("wasn"), Opt(Chr("'")),
                      Opt(Chr("t")), Ws, Lit("enough")>>),
                Lit("partial")>>), "Partial Solution"),
     \* (?i)no.*solution|didn'?t?\s*solve
     Rule(Alt(<<Cat(<<Lit("no"), DotStar, Lit("solution")>>),
                Cat(<<Lit("didn"), Opt(Chr("'")), Opt(Chr("t")), Ws, Lit("solve")>>)>>),
          "No Solution"),
     \* (?i)^$|none|no\s*response
     Rule(NoResponse, "No Response") >>

\* The table with its first two rules in the other order.
Fair_Election_Results_rules_no_first ==
  << Rule(Alt(<<Cat(<<Bol, Chr("n"), Opt(Chr("o")), Eol>>), Lit("unfair")>>), "No"),
     Rule(Alt(<<Cat(<<Bol, Chr("y"), Opt(Lit("es")), Eol>>), Lit("fair")>>), "Yes"),
     Rule(Alt(<<Cat(<<Lit("don"), Opt(Chr("'")), Opt(Chr("t")), Ws, Lit("know")>>),
                Lit("unsure")>>), "Don't Know"),
     Rule(NoResponse, "No Response") >>

Fair_Election_Results_rules ==
  << \* (?i)^y(es)?$|fair
     Rule(Alt(<<Cat(<<Bol, Chr("y"), Opt(Lit("es")), Eol>>), Lit("fair")>>), "Yes"),
     \* (?i)^n(o)?$|unfair
     Rule(Alt(<<Cat(<<Bol, Chr("n"), Opt(Chr("o")), Eol>>), Lit("unfair")>>), "No"),
     \* (?i)don'?t?\s*know|unsure
     Rule(Alt(<<Cat(<<Lit("don"), Opt(Chr("'")), Opt(Chr("t")), Ws, Lit("know")>>),
                Lit("unsure")>>), "Don't Know"),
     \* (?i)^$|none|no\s*response
     Rule(NoResponse, "No Response") >>

\* The keys of COLUMN_PATTERNS in the dict's order: the governed columns.
GOVERNED == <<"Occupation", "Party_Belong", "Voted_Last_Election", "Reason_Not_Voted",
              "Know_Projects", "Solved_Community_Problems", "Fair_Election_Results">>

Governed == {GOVERNED[k] : k \in 1..Len(GOVERNED)}

COLUMN_PATTERNS ==
  [column \in Governed |->
     CASE column = "Occupation"                -> Occupation_rules
       [] column = "Party_Belong"              -> Party_Belong_rules
       [] column = "Voted_Last_Election"       -> Voted_Last_Election_rules
       [] column = "Reason_Not_Voted"          -> Reason_Not_Voted_rules
       [] column = "Know_Projects"             -> Know_Projects_rules
       [] column = "Solved_Community_Problems" -> Solved_Community_Problems_rules
       [] column = "Fair_Election_Results"     -> Fair_Election_Results_rules]

Other == Chars("Other")

\* The loop as standardize_column's replace leaves a value: unchanged when no rule matches.
RECURSIVE FirstMatch_keeps_unmatched(_, _, _)
FirstMatch_keeps_unmatched(rules, k, text) ==
  IF k > Len(rules) THEN text
  ELSE IF Search(rules[k].pattern, text, TRUE) THEN rules[k].label
  ELSE FirstMatch_keeps_unmatched(rules, k + 1, text)

\* The loop without its early return: the last rule that matches wins.
RECURSIVE FirstMatch_last_wins(_, _, _)
FirstMatch_last_wins(rules, k, text) ==
  IF k > Len(rules) THEN Other
  ELSE LET later == FirstMatch_last_wins(rules, k + 1, text)
       IN IF later = Other /\ Search(rules[k].pattern, text, TRUE) THEN rules[k].label
          ELSE later

\* The loop of match_pattern over the column's rules, from rule k on.
RECURSIVE FirstMatch(_, _, _)
FirstMatch(rules, k, text) ==
  IF k > Len(rules) THEN Other
  ELSE IF Search(rules[k].pattern, text, TRUE) THEN rules[k].label
  ELSE FirstMatch(rules, k + 1, text)

\* match_pattern, the closure of standardize_column_with_search(column).
match_pattern(column, text) == FirstMatch(COLUMN_PATTERNS[column], 1, clean_text(text))

(***************************************************************************)
(* The input file and pd.read_csv                                          *)
(*                                                                         *)
(* A file is a header line of column names and rows of fields; a field is  *)
(* a sequence of bytes.  A byte below 0x80 is the ASCII character it       *)
(* encodes; a byte from 0x80 on is named in hexadecimal ("xE9").           *)
(***************************************************************************)
HighBytes == {"x80", "x99", "xA9", "xC3", "xE2", "xE9"}

\* The multi-byte UTF-8 sequences of the model's files and what they decode to.
Utf8Sequences == { << <<"xC3", "xA9">>, e_acute >>,            \* U+00E9
                   << <<"xE2", "x80", "x99">>, rsquo >> }      \* U+2019

\* bytes.decode('latin1'): every byte b is U+00bb.
Latin1 == [b \in HighBytes |->
             CASE b = "x80" -> c80 [] b = "x99" -> c99 [] b = "xA9" -> copysgn
               [] b = "xC3" -> A_tilde [] b = "xE2" -> a_circ [] b = "xE9" -> e_acute]

\* bytes.decode('cp1252'): 0x80-0x9F hold punctuation, the rest is as latin1.
Cp1252 == [b \in HighBytes |->
             CASE b = "x80" -> euro [] b = "x99" -> tm [] OTHER -> Latin1[b]]

DecodeError == <<"<UnicodeDecodeError>">>

RECURSIVE Utf8Decode(_)
Utf8Decode(bs) ==
  IF bs = <<>> THEN <<>>
  ELSE IF Head(bs) \notin HighBytes
       THEN LET rest == Utf8Decode(Tail(bs))
            IN IF rest = DecodeError THEN DecodeError ELSE <<Head(bs)>> \o rest
  ELSE IF \E q \in Utf8Sequences : Len(q[1]) <= Len(bs) /\ SubSeq(bs, 1, Len(q[1])) = q[1]
       THEN LET q == CHOOSE q \in Utf8Sequences :
                       Len(q[1]) <= Len(bs) /\ SubSeq(bs, 1, Len(q[1])) = q[1]
                rest == Utf8Decode(SubSeq(bs, Len(q[1]) + 1, Len(bs)))
            IN IF rest = DecodeError THEN DecodeError ELSE <<q[2]>> \o rest
  ELSE DecodeError

\* bytes.decode(encoding): the text, or DecodeError (a UnicodeDecodeError).
Decode(bs, encoding) ==
  CASE encoding = "utf-8"  -> Utf8Decode(bs)
    [] encoding = "latin1" -> [i \in 1..Len(bs) |->
                                 IF bs[i] \in HighBytes THEN Latin1[bs[i]] ELSE bs[i]]
    [] encoding = "cp1252" -> [i \in 1..Len(bs) |->
                                 IF bs[i] \in HighBytes THEN Cp1252[bs[i]] ELSE bs[i]]

\* The fields read_csv reads as missing (its default na_values), among them the
\* empty field.
NA_VALUES == {<<>>, Chars("NA"), Chars("N/A"), Chars("n/a"), Chars("NaN"), Chars("nan"),
              Chars("NULL"), Chars("null"), Chars("#N/A")}

\* self.data before load_data has set it.
None == [none |-> TRUE]

\* pd.read_csv(file, encoding=encoding): the DataFrame, or the exception raised.
\* A file that is not there, holds no columns or cannot be tokenized raises
\* whatever the encoding; a field the encoding cannot decode raises
\* UnicodeDecodeError.  Which of the two a file with both faults raises is the
\* library's matter: tokenizeFirst.
ReadCsv(file, encoding, tokenizeFirst) ==
  LET undecodable == \E r \in 1..Len(file.rows) : \E j \in 1..Len(file.rows[r]) :
                        Decode(file.rows[r][j], encoding) = DecodeError
      cell(bs) == LET t == Decode(bs, encoding) IN IF t \in NA_VALUES THEN NaN ELSE <<>> \o t
  IN IF ~file.exists THEN [error |-> "FileNotFoundError"]
     ELSE IF file.header = <<>> THEN [error |-> "EmptyDataError"]
     ELSE IF file.malformed /\ (tokenizeFirst \/ ~undecodable) THEN [error |-> "ParserError"]
     ELSE IF undecodable THEN [error |-> "UnicodeDecodeError"]
     ELSE [error |-> "",
           data |-> [columns |-> file.header,
                     rows |-> [r \in 1..Len(file.rows) |->
                                 [j \in 1..Len(file.header) |-> cell(file.rows[r][j])]]]]

\* DataFrame.to_csv(path, index=False): a missing value is written as an empty field.
ToCsv(df) ==
  [header |-> df.columns,
   rows |-> [r \in 1..Len(df.rows) |->
               [j \in 1..Len(df.columns) |->
                  IF isna(df.rows[r][j]) THEN <<>> ELSE df.rows[r][j]]]]

(***************************************************************************)
(* State                                                                   *)
(***************************************************************************)
VARIABLES
  input_file,     \* the file at self.input_file
  data,           \* self.data: None, or the DataFrame
  output,         \* the file at the output path: None, or what to_csv wrote
  output_dir,     \* whether the output path's parent directory exists
  log,            \* the records logged, as <<level, message>>
  calls,          \* the methods called so far, each with what it returned
  caller,         \* "main", or "client" for code that calls the methods itself
  before,         \* self.data and the output as the last call found them
  text, once, twice, tpc,                \* clean_text applied to a value, and again
  column, value, repaired, label, mpc    \* match_pattern applied to a column's value

pipeVars  == <<input_file, data, output, output_dir, log, calls, caller, before>>
textVars  == <<text, once, twice, tpc>>
matchVars == <<column, value, repaired, label, mpc>>
vars == <<pipeVars, textVars, matchVars>>

Snapshot(d, o, dir) == [data |-> d, output |-> o, output_dir |-> dir]

NoFile == [exists |-> FALSE, malformed |-> FALSE, header |-> <<>>, rows |-> <<>>]

PipeIdle  == /\ input_file = NoFile /\ data = None /\ output = None /\ output_dir = FALSE
             /\ log = <<>> /\ calls = <<>> /\ caller = "idle" /\ before = Snapshot(None, None, FALSE)
TextIdle  == text = NaN /\ once = NaN /\ twice = NaN /\ tpc = "idle"
MatchIdle == column = "" /\ value = NaN /\ repaired = NaN /\ label = NaN /\ mpc = "idle"

(***************************************************************************)
(* ElectionDataCleaner: load_data, validate_data, clean_data,              *)
(* standardize_column_with_search, save_cleaned_data.  Each is the method  *)
(* as a function of self.data (and the file system); it yields what the    *)
(* method returns, the new self.data and the records it logs.              *)
(***************************************************************************)
encodings == <<"utf-8", "latin1", "cp1252">>

Columns(df) == {df.columns[j] : j \in 1..Len(df.columns)}

\* The warning about the governed columns the data lacks, if it lacks any.
validate_data(df) ==
  LET missing_cols == SelectSeq(GOVERNED, LAMBDA col : col \notin Columns(df))
  IN IF missing_cols # <<>> THEN << <<"WARNING", "Missing columns">> \o missing_cols >>
     ELSE <<>>

\* The loop with UnicodeDecodeError handled like any other exception.
RECURSIVE TryEncodings_stops_at_first_error(_, _, _, _)
TryEncodings_stops_at_first_error(file, self_data, k, tokenizeFirst) ==
  IF k > Len(encodings)
  THEN [ret |-> FALSE, data |-> self_data, encoding |-> "",
        log |-> << <<"ERROR", "Failed to load data with any encoding">> >>]
  ELSE LET read == ReadCsv(file, encodings[k], tokenizeFirst)
       IN IF read.error = ""
          THEN [ret |-> TRUE, data |-> read.data, encoding |-> encodings[k],
                log |-> validate_data(read.data)
                        \o << <<"INFO", "Successfully loaded data using", encodings[k]>>,
                              <<"INFO", "Loaded records", ToString(Len(read.data.rows))>> >>]
          ELSE [ret |-> FALSE, data |-> self_data, encoding |-> "",
                log |-> << <<"ERROR", "Error loading data", read.error>> >>]

\* The loop of load_data over encodings, from encodings[k] on.
RECURSIVE TryEncodings(_, _, _, _)
TryEncodings(file, self_data, k, tokenizeFirst) ==
  IF k > Len(encodings)
  THEN [ret |-> FALSE, data |-> self_data, encoding |-> "",
        log |-> << <<"ERROR", "Failed to load data with any encoding">> >>]
  ELSE LET read == ReadCsv(file, encodings[k], tokenizeFirst)
       IN IF read.error = ""
          THEN [ret |-> TRUE, data |-> read.data, encoding |-> encodings[k],
                log |-> validate_data(read.data)
                        \o << <<"INFO", "Successfully loaded data using", encodings[k]>>,
                              <<"INFO", "Loaded records", ToString(Len(read.data.rows))>> >>]
          ELSE IF read.error = "UnicodeDecodeError"
          THEN TryEncodings(file, self_data, k + 1, tokenizeFirst)
          ELSE [ret |-> FALSE, data |-> self_data, encoding |-> "",
                log |-> << <<"ERROR", "Error loading data", read.error>> >>]

load_data(file, self_data, tokenizeFirst) == TryEncodings(file, self_data, 1, tokenizeFirst)

\* The assignment made to every column of the frame, not to self.data[column] alone.
standardize_every_column(df, col) ==
  CHOOSE out \in
    { [d EXCEPT !.rows =
         <<>> \o [r \in 1..Len(d.rows) |->
                    <<>> \o [j \in 1..Len(d.columns) |-> match_pattern(col, d.rows[r][j])]]]
      : d \in {df} } : TRUE

\* self.data[column] = self.data[column].apply(match_pattern)
\* (d is df, so bound that the frame is computed once.)
standardize_column_with_search(df, col) ==
  CHOOSE out \in
    { IF col \notin Governed THEN d
      ELSE [d EXCEPT !.rows =
              <<>> \o [r \in 1..Len(d.rows) |->
                         <<>> \o [j \in 1..Len(d.columns) |->
                                    IF d.columns[j] = col THEN match_pattern(col, d.rows[r][j])
                                    ELSE d.rows[r][j]]]]
      : d \in {df} } : TRUE

\* The loop of clean_data over COLUMN_PATTERNS.keys(), from the k-th key on.
RECURSIVE CleanColumns(_, _)
CleanColumns(df, k) ==
  IF k > Len(GOVERNED) THEN df
  ELSE CHOOSE out \in
         { IF GOVERNED[k] \in Columns(d)
           THEN CleanColumns(standardize_column_with_search(d, GOVERNED[k]), k + 1)
           ELSE CleanColumns(d, k + 1)
           : d \in {df} } : TRUE

\* df.isnull().sum()[column]
NullCount(df, col) ==
  Cardinality({<<r, j>> \in (1..Len(df.rows)) \X (1..Len(df.columns)) :
                 df.columns[j] = col /\ isna(df.rows[r][j])})

\* The cleaning summary: one record per column whose null count changed, in the
\* order of the columns.
CleaningSummary(initial, final) ==
  LET filled(j) == NullCount(initial, final.columns[j]) - NullCount(final, final.columns[j])
      changed == {j \in 1..Len(final.columns) : filled(j) # 0}
      nth(n) == CHOOSE j \in changed : Cardinality({i \in changed : i <= j}) = n
  IN <<>> \o [n \in 1..Cardinality(changed) |->
               <<"INFO", final.columns[nth(n)], "Filled null values", ToString(filled(nth(n)))>>]

clean_data(self_data) ==
  IF self_data = None
  THEN [ret |-> FALSE, data |-> self_data, log |-> << <<"ERROR", "No data loaded">> >>]
  ELSE CHOOSE out \in
         { [ret |-> TRUE, data |-> cleaned,
            log |-> << <<"INFO", "Starting data cleaning process...">> >>
                    \o CleaningSummary(self_data, cleaned)]
           : cleaned \in {CleanColumns(self_data, 1)} } : TRUE

\* mkdir_ok: whether output_path.parent.mkdir(parents=True, exist_ok=True) succeeds.
\* With no data loaded, self.data.to_csv raises AttributeError after the mkdir.
save_cleaned_data(self_data, old_output, old_dir, mkdir_ok) ==
  IF ~mkdir_ok
  THEN [ret |-> FALSE, output |-> old_output, dir |-> old_dir,
        log |-> << <<"ERROR", "Error saving data">> >>]
  ELSE IF self_data = None
  THEN [ret |-> FALSE, output |-> old_output, dir |-> TRUE,
        log |-> << <<"ERROR", "Error saving data">> >>]
  ELSE [ret |-> TRUE, output |-> ToCsv(self_data), dir |-> TRUE,
        log |-> << <<"INFO", "Saved cleaned data">> >>]

\* main with "or" for "and": clean_data is called whatever load_data returned.
main_or(done) ==
  CASE done = <<>> -> "load_data"
    [] Len(done) = 1 /\ ~done[1].ret -> "clean_data"
    [] Len(done) = 1 /\ done[1].ret -> "save_cleaned_data"
    [] Len(done) = 2 /\ done[2].op = "clean_data" /\ done[2].ret -> "save_cleaned_data"
    [] OTHER -> "return"

\* main: the method main calls next, given what its calls so far returned
\* (cleaner.load_data() and cleaner.clean_data(), then save_cleaned_data).
main(done) ==
  CASE done = <<>> -> "load_data"
    [] Len(done) = 1 /\ done[1].ret -> "clean_data"
    [] Len(done) = 2 /\ done[2].ret -> "save_cleaned_data"
    [] OTHER -> "return"

(***************************************************************************)
(* The pipeline: main on an input file, or a client of the class calling   *)
(* its three methods in any order                                          *)
(***************************************************************************)
MaxRows == 1
MaxCalls == 2

Headers == { <<"Age">>, <<"Occupation">>, <<"Voted_Last_Election">>, <<"Know_Projects">>,
             <<"Fair_Election_Results">>, <<"Region", "Party_Belong">>,
             <<"Solved_Community_Problems", "Reason_Not_Voted">> }

\* Fields: empty, UTF-8 (a right single quotation mark), latin1 (e acute).
CellBytes == { <<>>,
               Chars("don") \o <<"xE2", "x80", "x99">> \o Chars("t know"),
               Chars("unfair caf") \o <<"xE9">> }

RowsOf(header) == UNION {[1..n -> [1..Len(header) -> CellBytes]] : n \in 0..MaxRows}

InputFiles ==
  {NoFile}
    \cup {[exists |-> TRUE, malformed |-> FALSE, header |-> <<>>, rows |-> <<>>]}
    \cup UNION {{[exists |-> TRUE, malformed |-> m, header |-> h, rows |-> rs] :
                   m \in BOOLEAN, rs \in RowsOf(h)} : h \in Headers}

Init == /\ input_file \in InputFiles
        /\ caller \in {"main", "client"}
        /\ data = None /\ output = None /\ output_dir = FALSE
        /\ log = <<>> /\ calls = <<>> /\ before = Snapshot(None, None, FALSE)
        /\ TextIdle /\ MatchIdle

MayCall(op) == IF caller = "main" THEN main(calls) = op ELSE Len(calls) < MaxCalls

Called(op, ret) == Append(calls, [op |-> op, ret |-> ret])

LoadData ==
  /\ MayCall("load_data")
  /\ \E tokenizeFirst \in BOOLEAN :
       LET r == load_data(input_file, data, tokenizeFirst)
       IN /\ data' = r.data
          /\ log' = log \o r.log
          /\ calls' = Called("load_data", r.ret)
  /\ before' = Snapshot(data, output, output_dir)
  /\ UNCHANGED <<input_file, output, output_dir, caller, textVars, matchVars>>

CleanData ==
  /\ MayCall("clean_data")
  /\ LET r == clean_data(data)
     IN /\ data' = r.data
        /\ log' = log \o r.log
        /\ calls' = Called("clean_data", r.ret)
  /\ before' = Snapshot(data, output, output_dir)
  /\ UNCHANGED <<input_file, output, output_dir, caller, textVars, matchVars>>

SaveCleanedData ==
  /\ MayCall("save_cleaned_data")
  /\ \E mkdir_ok \in BOOLEAN :
       LET r == save_cleaned_data(data, output, output_dir, mkdir_ok \/ output_dir)
       IN /\ output' = r.output
          /\ output_dir' = r.dir
          /\ log' = log \o r.log
          /\ calls' = Called("save_cleaned_data", r.ret)
  /\ before' = Snapshot(data, output, output_dir)
  /\ UNCHANGED <<input_file, data, caller, textVars, matchVars>>

Next == LoadData \/ CleanData \/ SaveCleanedData

Spec == Init /\ [][Next]_vars

(***************************************************************************)
(* clean_text on every short text over an alphabet of the characters its   *)
(* patterns name                                                           *)
(***************************************************************************)
MaxTextLen == 3

TextAlphabet == {A_tilde, A_circ, a_circ, euro, tm, cent, "a", "t", " ", ".", "\""}

TextsOfLen(n) == [1..n -> TextAlphabet]

TextInputs == {NaN} \cup UNION {TextsOfLen(n) : n \in 0..MaxTextLen}

TextInit == /\ text \in TextInputs
            /\ once = NaN /\ twice = NaN /\ tpc = "input"
            /\ MatchIdle /\ PipeIdle

\* text = clean_text(text)
Repair == /\ tpc = "input"
          /\ once' = clean_text(text)
          /\ tpc' = "once"
          /\ UNCHANGED <<text, twice, matchVars, pipeVars>>

\* the repaired text repaired again
RepairAgain == /\ tpc = "once"
               /\ twice' = clean_text(once)
               /\ tpc' = "twice"
               /\ UNCHANGED <<text, once, matchVars, pipeVars>>

TextNext == Repair \/ RepairAgain

SpecText == TextInit /\ [][TextNext]_vars

(***************************************************************************)
(* match_pattern on every governed column, over a corpus of values: the    *)
(* missing value, every canonical label, survey answers, and every         *)
(* concatenation of a few fragments of the words the patterns name         *)
(***************************************************************************)
MaxFrags == 2

CanonicalLabels(c) == {COLUMN_PATTERNS[c][k].label : k \in 1..Len(COLUMN_PATTERNS[c])}

AllLabels == UNION {CanonicalLabels(c) : c \in Governed} \cup {Other, Unknown}

Fragments == {Chars("n"), Chars("o"), Chars("N"), Chars("O"), Chars(" "),
              Chars("un"), Chars("UN"), Chars("fair"), Chars("none"), Chars("sick")}

RECURSIVE Join(_)
Join(fs) == IF fs = <<>> THEN <<>> ELSE Head(fs) \o Join(Tail(fs))

Joined == {Join(fs) : fs \in UNION {[1..n -> Fragments] : n \in 0..MaxFrags}}

Answers == {Chars("FARMERS "), Chars("ndc"), Chars("dont know"), Chars("Don't know"),
            Chars("I wasn't interested"), Chars("no transport, was sick"),
            Chars("lost ID"), Chars("hair stylist"), Chars("okada"), Chars("N/A"),
            Chars("Yes, I knew about them"), Chars("it was UNFAIR"), Chars("Very fair"),
            Chars("unsure"), Chars("cant tell"), Chars("\t"), Chars("..."),
            Chars("y"), Chars("YES"), Chars("no response"), Chars("trader and farmer"),
            Chars("don") \o <<a_circ, euro, tm>> \o Chars("t know")}

MatchValues == {NaN} \cup AllLabels \cup Answers \cup Joined

MatchInit == /\ column \in Governed
             /\ value \in MatchValues
             /\ repaired = NaN /\ label = NaN /\ mpc = "input"
             /\ TextIdle /\ PipeIdle

\* One cell of self.data[column].apply(match_pattern).  repaired is the text the
\* rules are tried on.
Categorize == /\ mpc = "input"
              /\ repaired' = clean_text(value)
              /\ label' = match_pattern(column, value)
              /\ mpc' = "matched"
              /\ UNCHANGED <<column, value, textVars, pipeVars>>

MatchNext == Categorize

SpecMatch == MatchInit /\ [][MatchNext]_vars

(***************************************************************************)
(* Properties                                                              *)
(***************************************************************************)
LastCall == calls[Len(calls)]

\* The last call was op and it returned ret.
Returned(op, ret) == calls # <<>> /\ LastCall.op = op /\ LastCall.ret = ret

Lower(t) == [i \in 1..Len(t) |-> Fold(t[i])]

\* word occurs in t, letter case apart.
ContainsCI(t, word) ==
  \E i \in 1..(Len(t) - Len(word) + 1) : \A k \in 1..Len(word) : Fold(t[i + k - 1]) = word[k]

\* read_csv reads the file under the encoding (whatever tokenizeFirst is).
Parses(file, encoding) == ReadCsv(file, encoding, TRUE).error = ""

\* C1: after clean_data has returned True, every cell of every governed column of
\* the data is one of that column's canonical labels or "Other", in every row the
\* data had, whatever the cell held before (a missing value included).
C1_GovernedCellsAreLabels ==
  Returned("clean_data", TRUE) =>
    /\ Len(data.rows) = Len(before.data.rows)
    /\ \A r \in 1..Len(data.rows) : \A j \in 1..Len(data.columns) :
         data.columns[j] \in Governed =>
           data.rows[r][j] \in CanonicalLabels(data.columns[j]) \cup {Other}

\* clean_data has returned True on data holding, in a governed column, a missing
\* value and a text that is no label.
C1_Witness ==
  /\ Returned("clean_data", TRUE)
  /\ \E j \in 1..Len(data.columns) :
       /\ data.columns[j] \in Governed
       /\ \E r \in 1..Len(data.rows) :
            \/ isna(before.data.rows[r][j])
            \/ before.data.rows[r][j] \notin AllLabels

\* Texts made only of white space, quotation marks and other special characters.
OnlyNoise(t) == \A i \in 1..Len(t) : t[i] \in {" ", ".", "\"", euro, tm, cent}

\* C2: clean_text returns a non-empty string for every input; "Unknown" for a
\* missing input and for a text that artifact removal, special-character stripping
\* and trimming leave empty.
C2_RepairNeverEmpty ==
  tpc # "input" =>
    /\ once # <<>> /\ ~isna(once)
    /\ (isna(text) => once = Unknown)
    /\ (~isna(text) /\ OnlyNoise(text) => once = Unknown)

\* A text that is not missing and not empty has been repaired to "Unknown".
C2_Witness == tpc = "once" /\ ~isna(text) /\ text # <<>> /\ OnlyNoise(text) /\ once = Unknown

\* C3: clean_text(clean_text(x)) = clean_text(x) for every input x.
C3_RepairIdempotent == tpc = "twice" => twice = once

\* C4: for every governed column, every canonical label of the column, and "Other",
\* is categorised as itself.
C4_LabelsMapToThemselves ==
  mpc = "matched" /\ value \in CanonicalLabels(column) \cup {Other} => label = value

\* The rules of the column whose pattern matches the repaired text.
Hits == {k \in 1..Len(COLUMN_PATTERNS[column]) :
           Search(COLUMN_PATTERNS[column][k].pattern, repaired, TRUE)}

\* C5: the label is that of the earliest rule, in the table's order, whose pattern
\* matches the repaired text, and "Other" when no rule's pattern matches.
C5_FirstMatchWins ==
  mpc = "matched" =>
    IF Hits = {} THEN label = Other
    ELSE \E k \in Hits : (\A h \in Hits : k <= h) /\ label = COLUMN_PATTERNS[column][k].label

\* Two rules with different labels match the text; the earlier one's label is returned.
C5_Witness ==
  /\ mpc = "matched"
  /\ \E k, h \in Hits : /\ k < h
                        /\ COLUMN_PATTERNS[column][k].label # COLUMN_PATTERNS[column][h].label
                        /\ label = COLUMN_PATTERNS[column][k].label

\* The first of encodings under which read_csv reads the file.
FirstParsing(file) ==
  CHOOSE i \in 1..Len(encodings) :
    Parses(file, encodings[i]) /\ \A h \in 1..(i - 1) : ~Parses(file, encodings[h])

\* C6: load_data returns True exactly when read_csv reads the file under one of
\* utf-8, latin1, cp1252, and then the data is the file as read under the first of
\* them, in that order, that reads it.
C6_FirstEncodingThatParses ==
  /\ \A k \in 1..Len(calls) :
       calls[k].op = "load_data" =>
         (calls[k].ret <=> \E i \in 1..Len(encodings) : Parses(input_file, encodings[i]))
  /\ Returned("load_data", TRUE) =>
       data = ReadCsv(input_file, encodings[FirstParsing(input_file)], TRUE).data

\* load_data has returned True on a file that utf-8 cannot decode: the data is the
\* file as latin1 decodes it.
C6_Witness ==
  /\ Returned("load_data", TRUE)
  /\ ~Parses(input_file, "utf-8")
  /\ data = ReadCsv(input_file, "latin1", TRUE).data
  /\ data.rows # <<>>

\* C7: clean_data on loaded data returns True and leaves the columns and the number
\* of rows as they were; a cell of a governed column becomes match_pattern of that
\* column and of what the cell held, every other cell is unchanged, and the output
\* is untouched.  load_data returns True on every file that parses, whichever
\* governed columns it lacks.
C7_OnlyGovernedColumnsChange ==
  /\ \A k \in 1..Len(calls) :
       calls[k].op = "load_data" /\ (\E i \in 1..Len(encodings) : Parses(input_file, encodings[i]))
         => calls[k].ret
  /\ calls # <<>> /\ LastCall.op = "clean_data" /\ before.data # None =>
       /\ LastCall.ret
       /\ data.columns = before.data.columns
       /\ Len(data.rows) = Len(before.data.rows)
       /\ \A r \in 1..Len(data.rows) :
            /\ Len(data.rows[r]) = Len(data.columns)
            /\ \A j \in 1..Len(data.columns) :
                 data.rows[r][j] = IF data.columns[j] \in Governed
                                   THEN match_pattern(data.columns[j], before.data.rows[r][j])
                                   ELSE before.data.rows[r][j]
       /\ output = before.output /\ output_dir = before.output_dir

\* clean_data has returned True on data that lacks governed columns and holds a
\* governed column, whose cell it changed, beside a column that is not governed.
C7_Witness ==
  /\ Returned("clean_data", TRUE)
  /\ \E c \in Governed : c \notin Columns(data)
  /\ \E j, h \in 1..Len(data.columns) :
       /\ data.columns[j] \in Governed /\ data.columns[h] \notin Governed
       /\ \E r \in 1..Len(data.rows) : /\ data.rows[r][j] # before.data.rows[r][j]
                                       /\ ~isna(data.rows[r][h])

Ops(cs) == [k \in 1..Len(cs) |-> cs[k].op]

\* C8: main calls load_data, then clean_data, then save_cleaned_data, each only
\* after every earlier one has returned True; once load_data has returned False no
\* data is loaded, nothing else is called and no output is written.  clean_data
\* called with no data loaded returns False and changes neither self.data nor the
\* output.
C8_PipelineOrder ==
  /\ caller = "main" =>
       /\ Ops(calls) = SubSeq(<<"load_data", "clean_data", "save_cleaned_data">>, 1, Len(calls))
       /\ \A k \in 1..(Len(calls) - 1) : calls[k].ret
       /\ (calls # <<>> /\ ~calls[1].ret) =>
            data = None /\ output = None /\ ~output_dir /\ Len(calls) = 1
       /\ output # None => Len(calls) = 3 /\ LastCall.ret
  /\ (calls # <<>> /\ LastCall.op = "clean_data" /\ before.data = None) =>
       /\ ~LastCall.ret
       /\ data = None /\ output = before.output /\ output_dir = before.output_dir

\* main has called load_data, which returned False: nothing is loaded or written.
C8_Witness ==
  caller = "main" /\ calls # <<>> /\ ~calls[1].ret /\ data = None /\ output = None

\* A missing value, or a text of white space only.
Blank(v) == isna(v) \/ \A i \in 1..Len(v) : IsSpace(v[i])

\* C9: the text the rules are tried on is never empty, so the ^$ alternative never
\* matches; a missing or blank value is repaired to "Unknown" and labelled
\* "Not Specified" in Party_Belong and "Other" in every other governed column.
C9_BlankIsOther ==
  mpc = "matched" =>
    /\ ~Search(Empty, repaired, TRUE)
    /\ Blank(value) =>
         /\ repaired = Unknown
         /\ label = IF column = "Party_Belong" THEN Chars("Not Specified") ELSE Other

\* A blank text has been labelled "Other" in a column whose table holds ^$.
C9_Witness ==
  /\ mpc = "matched" /\ ~isna(value) /\ Blank(value) /\ label = Other
  /\ \E k \in 1..Len(COLUMN_PATTERNS[column]) : COLUMN_PATTERNS[column][k].pattern = NoResponse

\* C10, as stated: in Fair_Election_Results a repaired text containing "unfair" in
\* any letter case is labelled "Yes", and the label is "No" only when the repaired
\* text is exactly "n" or "no".
C10_NoOnlyForExactlyNOrNo ==
  mpc = "matched" /\ column = "Fair_Election_Results" =>
    /\ ContainsCI(repaired, Chars("unfair")) => label = Chars("Yes")
    /\ label = Chars("No") => repaired \in {Chars("n"), Chars("no")}

\* C10, amended: ... and the label is "No" only when the repaired text is "n" or
\* "no" in any letter case.
C10_NoOnlyForNOrNoAnyCase ==
  mpc = "matched" /\ column = "Fair_Election_Results" =>
    /\ ContainsCI(repaired, Chars("unfair")) => label = Chars("Yes")
    /\ label = Chars("No") => Lower(repaired) \in {Chars("n"), Chars("no")}

\* A text containing "unfair" has been labelled "Yes" though the "No" rule matches it.
C10_Witness ==
  /\ mpc = "matched" /\ column = "Fair_Election_Results"
  /\ ContainsCI(repaired, Chars("unfair")) /\ label = Chars("Yes")
  /\ 2 \in Hits

=============================================================================
